---- MODULE Spec2Model ----
(***************************************************************************)
(* Hook emulation layer of the solid-react adapter.                        *)
(*                                                                         *)
(* Spec      : the run-time scheduling of state containers (patch.ts       *)
(*             createSignal, hooks.ts useState / useReducer) and of the    *)
(*             effect family (useEffect / useLayoutEffect /                *)
(*             useInsertionEffect) over one FIFO microtask queue.          *)
(* SpecTrack : trackDeps and the tagged Dependency Wrappers (state getter, *)
(*             useMemo wrapper, useCallback wrapper) as a call-stack       *)
(*             machine over a dependency graph.                            *)
(***************************************************************************)
EXTENDS Integers, Sequences, FiniteSets, TLC

(***************************************************************************)
(* Bounds of the model.                                                    *)
(***************************************************************************)
\* setter / dispatch calls in one behaviour
MaxWrites == 2
\* lists on the Alias Scope Stack when a top-level invocation may still start
MaxGroups == 3
\* longest array handed to the Children utilities
MaxChildren == 2

(***************************************************************************)
(* Inputs.                                                                 *)
(***************************************************************************)
\* "count" is made by useState(0), "state" by useReducer(reducer, {count: 0})
Containers == {"count", "state"}

InitialState == [s \in Containers |-> 0]

\* the three effect hooks
Flavors == {"insertion", "layout", "passive"}

\* a SetStateAction: a literal next value or an updater of the previous value
SetStateActions ==
    { [form |-> "updater", n |-> 1],
      [form |-> "updater", n |-> 2],
      [form |-> "literal", n |-> 0] }

\* actions of the page's reducer
ReducerActions ==
    { [type |-> "increment", payload |-> 1],
      [type |-> "decrement", payload |-> 2],
      [type |-> "noop", payload |-> 0] }

\* dependency lists an effect is declared with: no tagged wrapper, or both state getters
DepChoices == { {}, {"count", "state"} }

VARIABLES
    pc,        \* "render" | "task": synchronous code runs; "micro": the microtask queue drains
    signal,    \* committed value of each underlying signal
    dirty,     \* Pending-Write Cell: dirty flag
    cache,     \* Pending-Write Cell: pending value
    mq,        \* FIFO microtask queue
    effects,   \* effect hooks in declaration order
    edeps,     \* each effect's declared state getters
    cleanup,   \* each effect's stored cleanup: id of the body run that returned it, 0 if none
    runs,      \* body invocations of each effect so far
    pass,      \* reactive passes so far
    trace,     \* cleanup and body invocations since the task began, in execution order
    lastRet,   \* per effect: id of its latest body run if that returned a cleanup, else 0
    lastHops,  \* per effect: continuations that ran from the evaluation to its latest body run
    written,   \* per container: the writes issued in the current task
    wbase,     \* per container: the committed value when the task's first write was issued
    ncommit,   \* per container: calls of the underlying signal setter since the task began
    evals,     \* per effect: evaluations of its computation since the task began
    nwrites,   \* setter / dispatch calls so far
    ntasks     \* tasks started so far

rtVars == << pc, signal, dirty, cache, mq, effects, edeps, cleanup, runs, pass,
             trace, lastRet, lastHops, written, wbase, ncommit, evals, nwrites, ntasks >>

VARIABLES
    wdeps,     \* each tagged wrapper's recorded dependency list ([solidPatchDeps])
    memoCache, \* useMemo: the value cached by the latest factory run
    op,        \* the call in progress: trackDeps(list) or an invocation of a wrapper
    stack,     \* activations of trackDeps, innermost last
    tstatus,   \* "idle" | "running" | "done" | "overflow"
    invoked,   \* per wrapper: invocations by trackDeps during the call
    subs,      \* underlying signals the call subscribed the caller's scope to
    calls,     \* lists trackDeps was called with during the call, in order
    result,    \* what the invocation returned
    ranUser    \* user functions the call ran: "factory", "callback"

tkVars == << wdeps, memoCache, op, stack, tstatus, invoked, subs, calls, result, ranUser >>

VARIABLES
    createElementNameGroups, \* Alias Scope Stack: lists of factory aliases
    useEffectNameGroups,     \* Alias Scope Stack: lists of effect-hook aliases
    unit,      \* the program of the unit being transformed, << >> between units
    entry,     \* the two stacks when the top-level invocation was entered
    outcome,   \* "idle" | "returned" | "thrown", and the text returned
    generated, \* the attribute keys and TempCls bindings the invocation generated
    hook       \* the latest unit holding an effect-hook call, and how it was rewritten

xfVars == << createElementNameGroups, useEffectNameGroups, unit, entry, outcome, generated, hook >>

VARIABLES
    current,   \* ref.current of the ref made by useRef, "none" before useRef
    apiCall    \* the latest call of useRef, the ref or Children.only, and what it gave

apVars == << current, apiCall >>

vars == << rtVars, tkVars, xfVars, apVars >>

Range(q) == { q[i] : i \in DOMAIN q }

(***************************************************************************)
(* patch.ts createSignal: the wrapped getter and the coalescing setter.    *)
(***************************************************************************)
\* mutant: the getter always returns the committed value
wrappedSignal_Committed(s) == signal[s]

\* const value = signal(); return dirty ? cache : value
wrappedSignal(s) == IF dirty[s] THEN cache[s] ELSE signal[s]

\* what a caller does with the proxy useState returns: call it, coerce it
\* (Symbol.toPrimitive), serialize it (toJSON), or read the property count on it
ProxyKeys == {"call", "toPrimitive", "toJSON", "count"}

\* containers whose value is an object ({count: n}); the others hold a number
ObjectStates == {"state"}

\* hooks.ts useState, the Proxy over the getter: Symbol.toPrimitive and toJSON give the
\* getter, which the caller then calls; any other key is Reflect.get(value, key), which
\* throws a TypeError when the value is not an object
proxyGet(s, key) ==
    IF key \in {"call", "toPrimitive", "toJSON"} \/ s \in ObjectStates
       THEN [threw |-> FALSE, value |-> wrappedSignal(s)]
       ELSE [threw |-> TRUE, value |-> 0]

\* typeof value === "function" ? value(cache) : value
ApplySetStateAction(a, prev) ==
    IF a.form = "updater" THEN prev + a.n ELSE a.n

\* the microtask the opening write of a batch schedules; nth: which call of the task made it
FlushTask(s, nth) ==
    [kind |-> "flush", s |-> s, e |-> "", left |-> 0, done |-> 0, pass |-> 0, nth |-> nth]

\* mutant: the dirty test is dropped, every call schedules a flush
SchedulesFlush_EveryCall(s) == TRUE

\* if (!dirty) { microDelay.then(...); dirty = true; cache = signal(); }
SchedulesFlush(s) == ~dirty[s]

\* mutant: the updater is applied to the committed value
PendingBase_Committed(s) == signal[s]

\* the value an updater is applied to: cache, filled from signal() by the opening write
PendingBase(s) == IF dirty[s] THEN cache[s] ELSE signal[s]

\* mutant: the flush writes the committed value back
FlushedValue_Stale(s) == signal[s]

\* the value the flush microtask hands to the underlying setter: setSignal(cache)
FlushedValue(s) == cache[s]

\* the setter returned by createSignal, called with SetStateAction a
setSignalWrapped(s, a) ==
    /\ mq' = IF SchedulesFlush(s)
                THEN Append(mq, FlushTask(s, Len(written[s]) + 1))
                ELSE mq
    /\ dirty' = [dirty EXCEPT ![s] = TRUE]
    /\ cache' = [cache EXCEPT ![s] = ApplySetStateAction(a, PendingBase(s))]

(***************************************************************************)
(* hooks.ts useReducer, with the reducer of pages/react-page.              *)
(***************************************************************************)
reducer(count, action) ==
    CASE action.type = "increment" -> count + action.payload
      [] action.type = "decrement" -> count - action.payload
      [] OTHER -> count

\* mutant: the reducer is handed the committed state
DispatchArg_Committed(action) ==
    IF action.type \in {"increment", "decrement"}
       THEN [form |-> "literal", n |-> reducer(signal["state"], action)]
       ELSE [form |-> "literal", n |-> signal["state"]]

\* what dispatch hands to setState: reducer(state, ...args), state being the proxy.
\* The reducer's default branch returns the proxy itself, a function; called as an
\* updater it returns the wrapped getter's value.
DispatchArg(action) ==
    IF action.type \in {"increment", "decrement"}
       THEN [form |-> "literal", n |-> reducer(wrappedSignal("state"), action)]
       ELSE [form |-> "updater", n |-> 0]

(***************************************************************************)
(* hooks.ts effect family.                                                 *)
(***************************************************************************)
\* mutant: every flavor chains one continuation
Hops_One(f) == 1

\* chained microDelay.then continuations before the body runs
Hops(f) ==
    CASE f = "passive" -> 3
      [] f = "layout" -> 2
      [] f = "insertion" -> 1

HopTask(f, left, p) ==
    [kind |-> "hop", s |-> "", e |-> f, left |-> left, done |-> 0, pass |-> p, nth |-> 0]

\* mutant: the reads of the body subscribe the computation as well
Subscribed_Always(f, s) == TRUE

\* trackDeps(deps) on a list of state getters subscribes the computation to each
Subscribed(f, s) == s \in edeps[f]

\* the effects a change of container s re-evaluates, in declaration order
Observers(s) == SelectSeq(effects, LAMBDA f : Subscribed(f, s))

\* mutant: each evaluation chains its continuations twice
Scheduled_Twice(fs, p) ==
    [i \in 1..(2 * Len(fs)) |-> HopTask(fs[(i + 1) \div 2], Hops(fs[(i + 1) \div 2]), p)]

\* what one evaluation of the computation of each effect in fs puts on the queue
Scheduled(fs, p) == [i \in 1..Len(fs) |-> HopTask(fs[i], Hops(fs[i]), p)]

\* mutant: the body runs before the previous cleanup
BodyEvents_BodyFirst(f, ret) ==
    << [ev |-> "body", e |-> f, id |-> runs[f] + 1, pass |-> Head(mq).pass,
        prev |-> lastRet[f]] >>
    \o (IF cleanup[f] # 0
           THEN << [ev |-> "cleanup", e |-> f, id |-> cleanup[f], pass |-> 0, prev |-> 0] >>
           ELSE << >>)

\* the last continuation: if (cleanup) cleanup(); cleanup = effect();
BodyEvents(f, ret) ==
    (IF cleanup[f] # 0
        THEN << [ev |-> "cleanup", e |-> f, id |-> cleanup[f], pass |-> 0, prev |-> 0] >>
        ELSE << >>)
    \o << [ev |-> "body", e |-> f, id |-> runs[f] + 1, pass |-> Head(mq).pass,
           prev |-> lastRet[f]] >>

\* mutant: a body that returns nothing leaves the stored cleanup in place
StoredCleanup_Keep(f, ret) == IF ret THEN runs[f] + 1 ELSE cleanup[f]

\* cleanup = effect(): the stored cleanup after a body run that returned one (ret) or not
StoredCleanup(f, ret) == IF ret THEN runs[f] + 1 ELSE 0

(***************************************************************************)
(* hooks.ts trackDeps and the tagged Dependency Wrappers.                  *)
(***************************************************************************)
\* longest dependency list an effect declares
MaxDeps == 2
\* longest dependency list a useMemo / useCallback wrapper records
MaxRecorded == 1
\* nested trackDeps activations the engine's call stack holds
StackLimit == 4

\* the page's tagged wrappers: const [count] = useState(0),
\* doubleCount = useMemo(() => count * 2, ...), increment = useCallback(...)
Wrappers == {"count", "doubleCount", "increment"}

Kind(w) ==
    CASE w = "count" -> "state"
      [] w = "doubleCount" -> "memo"
      [] w = "increment" -> "callback"

\* values the count signal takes
CountValues == {0, 1}

\* a dependency-list entry that is no tagged wrapper (a number, a ref, a plain function)
Plain == "plain"

\* typeof dep === "function" && solidPatchDeps in dep
Tagged(dep) == dep \in Wrappers

ListsOver(S, max) == UNION { [1..n -> S] : n \in 0..max }

\* the dependency lists a wrapper may record
RecordedLists == ListsOver(Wrappers, MaxRecorded)

\* the dependency lists an effect may declare
DeclaredLists == ListsOver(Wrappers \cup {Plain}, MaxDeps)

\* the factory of doubleCount
Factory(v) == v * 2

\* one activation of trackDeps: its list, the forEach index, its depMap, and the memo
\* wrapper whose recorded list is tracked again once the wrapper's own call returns
Frame(list) == [list |-> list, i |-> 1, seen |-> {}, redo |-> ""]

\* trackDeps(list) called under the activations st: if (deps.length > 0) { ... }
CallTrackDeps(st, list) ==
    IF list = << >>
       THEN [stack |-> st, ok |-> TRUE]
       ELSE IF Len(st) >= StackLimit
               THEN [stack |-> st, ok |-> FALSE]
               ELSE [stack |-> Append(st, Frame(list)), ok |-> TRUE]

\* the wrappers an activation skips: if (!depMap.has(dep))
AlreadyTracked(frame, dep) == dep \in frame.seen

NoValue == [t |-> "none", v |-> 0]

\* mutant: the apply trap ignores the sentinel
callbackApply_Always(validate) == [value |-> [t |-> "result", v |-> 0], ran |-> {"callback"}]

\* useCallback's Proxy apply trap: the cached function for the sentinel, else its call
callbackApply(validate) ==
    IF validate
       THEN [value |-> [t |-> "function", v |-> 0], ran |-> {}]
       ELSE [value |-> [t |-> "result", v |-> 0], ran |-> {"callback"}]

\* mutant: the wrapper recomputes the value
memoReturn_Recompute ==
    [value |-> [t |-> "value", v |-> Factory(wrappedSignal("count"))], ran |-> {"factory"}]

\* useMemo's wrapper after its trackDeps(deps): return cache
memoReturn == [value |-> [t |-> "value", v |-> memoCache], ran |-> {}]

\* the tagged wrappers among the entries of a list
TaggedIn(list) == { list[i] : i \in DOMAIN list } \cap Wrappers

RECURSIVE ReachFrom(_, _)
ReachFrom(S, n) ==
    IF n = 0
       THEN S
       ELSE ReachFrom(S \cup UNION { TaggedIn(wdeps[w]) : w \in S }, n - 1)

\* the wrappers a list reaches through recorded dependency lists
Reachable(list) == ReachFrom(TaggedIn(list), Cardinality(Wrappers))

\* the state getters a list reaches
SignalsOf(list) == { w \in Reachable(list) : Kind(w) = "state" }

\* no call in progress
TkIdle ==
    /\ memoCache = Factory(InitialState["count"])
    /\ op = [kind |-> "none", list |-> << >>, w |-> "", validate |-> FALSE]
    /\ stack = << >>
    /\ tstatus = "idle"
    /\ invoked = [w \in Wrappers |-> 0]
    /\ subs = {}
    /\ calls = << >>
    /\ result = NoValue
    /\ ranUser = {}

(***************************************************************************)
(* Transform engine (unnamed/part_003): texts and syntax nodes.            *)
(*                                                                         *)
(* A text is a sequence of tokens, its bytes being the tokens in order.    *)
(* The parser is given: a source text is held as the program (ast.body)    *)
(* the parser yields for it, a Malformed node standing for text the        *)
(* parser rejects.                                                         *)
(***************************************************************************)
\* String.prototype.includes
Includes(text, pat) ==
    \E i \in 0..(Len(text) - Len(pat)) : SubSeq(text, i + 1, i + Len(pat)) = pat

Underscores(n) == [i \in 1..n |-> "_"]

\* syntax nodes
Token(text) == [type |-> "Token", text |-> text]
Malformed(text) == [type |-> "Malformed", text |-> text]
Identifier(name) == [type |-> "Identifier", name |-> name]
Literal(value) == [type |-> "Literal", value |-> value, string |-> TRUE]
NullLiteral == [type |-> "Literal", value |-> "null", string |-> FALSE]
MemberExpression(object, property) ==
    [type |-> "MemberExpression", object |-> object, property |-> property]
ConditionalExpression(text) == [type |-> "ConditionalExpression", text |-> text]
BinaryExpression(text) == [type |-> "BinaryExpression", text |-> text]
Property(key, value) == [type |-> "Property", key |-> key, value |-> value]
ObjectExpression(properties) == [type |-> "ObjectExpression", properties |-> properties]
ArrayExpression(elements) == [type |-> "ArrayExpression", elements |-> elements]
CallExpression(callee, arguments) ==
    [type |-> "CallExpression", callee |-> callee, arguments |-> arguments]
ImportDeclaration(source, imported, local) ==
    [type |-> "ImportDeclaration", source |-> source, imported |-> imported,
     local |-> local]
\* export default function () {}: id is the text between "function" and "("
FunctionDeclaration(id) == [type |-> "FunctionDeclaration", id |-> id]
JSXText(text) == [type |-> "JSXText", text |-> text]
JSXExpressionContainer(expression) ==
    [type |-> "JSXExpressionContainer", expression |-> expression]
JSXElement(name, children) ==
    [type |-> "JSXElement", name |-> name, children |-> children]

\* nodes whose text is held in the node
TextTypes == {"Token", "Malformed", "ConditionalExpression", "BinaryExpression", "JSXText"}

\* nodes without child nodes
LeafTypes == TextTypes \cup {"Identifier", "Literal", "MemberExpression",
                             "ImportDeclaration", "FunctionDeclaration"}

\* a list of nodes with "," between them
Separated(nodes) ==
    [i \in 1..(2 * Len(nodes) - 1) |->
        IF i % 2 = 1 THEN nodes[(i + 1) \div 2] ELSE Token(<< "," >>)]

\* the child nodes and the tokens between them, in source order
Parts(node) ==
    CASE node.type = "Property" -> << Token(<< node.key, ":" >>), node.value >>
      [] node.type = "ObjectExpression" ->
           << Token(<< "{" >>) >> \o Separated(node.properties) \o << Token(<< "}" >>) >>
      [] node.type = "ArrayExpression" ->
           << Token(<< "[" >>) >> \o Separated(node.elements) \o << Token(<< "]" >>) >>
      [] node.type = "CallExpression" ->
           << node.callee, Token(<< "(" >>) >> \o Separated(node.arguments)
              \o << Token(<< ")" >>) >>
      [] node.type = "JSXExpressionContainer" ->
           << Token(<< "{" >>), node.expression, Token(<< "}" >>) >>
      [] node.type = "JSXElement" ->
           << Token(<< "<", node.name, ">" >>) >> \o node.children
              \o << Token(<< "</", node.name, ">" >>) >>

RECURSIVE TextOf(_)
RECURSIVE TextOfAll(_)
\* source.slice(node.start, node.end)
TextOf(node) ==
    CASE node.type \in TextTypes -> node.text
      [] node.type = "Identifier" -> << node.name >>
      [] node.type = "Literal" ->
           IF node.string THEN << "\"", node.value, "\"" >> ELSE << node.value >>
      [] node.type = "MemberExpression" -> << node.object, ".", node.property >>
      [] node.type = "ImportDeclaration" ->
           << "import", "{" >>
           \o (IF node.imported = node.local
                  THEN << node.local >>
                  ELSE << node.imported, "as", node.local >>)
           \o << "}", "from", "\"", node.source, "\"", ";" >>
      [] node.type = "FunctionDeclaration" ->
           << "export", "default", "function" >> \o node.id \o << "(", ")", "{", "}" >>
      [] OTHER -> TextOfAll(Parts(node))

\* the text of a program or of a list of parts
TextOfAll(nodes) ==
    IF nodes = << >> THEN << >> ELSE TextOf(Head(nodes)) \o TextOfAll(Tail(nodes))

\* JSXParser.parse accepts the text
Parses(program) == \A i \in DOMAIN program : program[i].type # "Malformed"

\* the program the parser yields for the text of one node, parsed as a module of its own
SliceProgram(node) ==
    CASE node.type = "JSXText" ->
           IF Len(node.text) = 1 THEN << Token(node.text) >> ELSE << Malformed(node.text) >>
      [] node.type = "ObjectExpression" ->
           IF Len(node.properties) >= 2
              THEN << Malformed(TextOf(node)) >>
              ELSE << Token(TextOf(node)) >>
      [] OTHER -> << node >>

(***************************************************************************)
(* handleBeforeAST: the first anonymous function is given a name.          *)
(***************************************************************************)
RECURSIVE anonymousFunctionName(_, _)
\* let name = "___"; while (source.includes(name)) name += "_"
anonymousFunctionName(text, n) ==
    IF Includes(text, << "___" >> \o Underscores(n))
       THEN anonymousFunctionName(text, n + 1)
       ELSE << "___" >> \o Underscores(n)

\* regAnonymousFunction.exec(source): the first "(" that follows "function"
FirstAnonymous(program) ==
    LET hits == { i \in DOMAIN program :
                    program[i].type = "FunctionDeclaration" /\ program[i].id = << >> }
    IN  IF hits = {} THEN 0 ELSE CHOOSE i \in hits : \A j \in hits : i <= j

handleBeforeAST(program) ==
    LET at == FirstAnonymous(program)
    IN  IF at = 0
           THEN program
           ELSE [program EXCEPT
                   ![at].id = << " " >> \o anonymousFunctionName(TextOfAll(program), 0)]

(***************************************************************************)
(* transformSource: the traversal and its rewrites.                        *)
(*                                                                         *)
(* The traversal carries a record: ok (nothing thrown so far), out (the    *)
(* results pushed so far), cg / ug (createElementNameGroups and            *)
(* useEffectNameGroups), react (defaultReactName), and two records of what *)
(* was generated: attrs (source key and attribute key of every property    *)
(* rendered) and tags (every TempCls binding with the texts it was tested  *)
(* against).                                                               *)
(***************************************************************************)
\* mutant: every bare call is taken for a tree-construction call
hasImportedCreateElement_Any(name, groups) == TRUE

\* createElementNameGroups.some((group) => group.includes(name))
hasImportedCreateElement(name, groups) ==
    \E i \in DOMAIN groups : \E j \in DOMAIN groups[i] : groups[i][j] = name

\* mutant: the imported name is recorded
RecordedName_Imported(specifier) == specifier.imported

\* createElementNames.push(specifier.local.name)
RecordedName(specifier) == specifier.local

EffectHooks == {"useEffect", "useLayoutEffect", "useInsertionEffect"}

\* case "ImportDeclaration": the names the invocation's own lists record
RecordImport(node, acc) ==
    IF node.source # "react" THEN acc
    ELSE IF node.imported = "default" THEN [acc EXCEPT !.react = node.local]
    ELSE IF node.imported = "createElement"
            THEN [acc EXCEPT !.cg[Len(acc.cg)] = Append(@, RecordedName(node))]
    ELSE IF node.imported \in EffectHooks
            THEN [acc EXCEPT !.ug[Len(acc.ug)] = Append(@, node.local)]
    ELSE acc

handleValue(value) ==
    CASE value.type = "Identifier" -> << value.name >>
      [] value.type = "Literal" -> << value.value >>
      [] value.type = "MemberExpression" ->
           << value.object, "[\"", value.property, "\"]" >>
      [] OTHER -> TextOf(value)

\* the test of case "CallExpression" for a tree-construction call
IsCreateElementCall(node, acc) ==
    \/ /\ node.callee.type = "MemberExpression"
       /\ node.callee.object = acc.react
       /\ node.callee.property = "createElement"
    \/ /\ node.callee.type = "Identifier"
       /\ hasImportedCreateElement(node.callee.name, acc.cg)

\* mutant: no key is renamed
AttributeKey_Same(key) == key

\* handleProps: if (key === "className") key = "class"
AttributeKey(key) == IF key = "className" THEN "class" ELSE key

\* mutant: only the tag text is tested
Collides_TagOnly(tag, identifierStr, propsStr, childrenStr) ==
    Includes(identifierStr, tag)

\* the test of the TempCls loop
Collides(tag, identifierStr, propsStr, childrenStr) ==
    \/ Includes(identifierStr, tag)
    \/ Includes(propsStr, tag)
    \/ Includes(childrenStr, tag)

RECURSIVE TempClsName(_, _, _, _)
\* let tag = "TempCls"; while (...) tag += "_"
TempClsName(n, identifierStr, propsStr, childrenStr) ==
    IF Collides(<< "TempCls" >> \o Underscores(n), identifierStr, propsStr, childrenStr)
       THEN TempClsName(n + 1, identifierStr, propsStr, childrenStr)
       ELSE << "TempCls" >> \o Underscores(n)

RECURSIVE WrapperName(_, _, _)
\* let newName = tagName + "_"; while (newName === "__wrapSolidComp__" || ...) newName += "_"
WrapperName(tagName, n, nodeStr) ==
    IF \/ << tagName >> \o Underscores(n) = << "__wrapSolidComp__" >>
       \/ Includes(nodeStr, << tagName >> \o Underscores(n))
       THEN WrapperName(tagName, n + 1, nodeStr)
       ELSE << tagName >> \o Underscores(n)

\* /^[a-z]/.test(tagName)
LowercaseTags == {"div", "span"}

\* results.push(text)
Emit(acc, text) == [acc EXCEPT !.out = @ \o text]

\* createElementNameGroups.splice(createElementNameGroups.indexOf(createElementNames), 1):
\* every nested invocation has returned, the invocation's own list is the last one
Splice(groups) == SubSeq(groups, 1, Len(groups) - 1)

\* the argument of a nested invocation: the node whose text is transformed and the
\* text put before and after what the invocation returns
Slice(node, open, close) == [node |-> node, open |-> open, close |-> close]

RECURSIVE Walk(_, _, _)
\* The functions of the engine that call one another; fn names the function entered,
\* x is its argument and acc the traversal record when it is entered.
Walk(fn, x, acc) ==
    CASE fn = "transformSource" ->
           \* transformSource(source), x the program of source
           LET entered == [acc EXCEPT !.ok = TRUE, !.out = << >>, !.react = "React",
                                      !.cg = Append(@, << >>), !.ug = Append(@, << >>)]
               pre == handleBeforeAST(x)
           IN  IF ~Parses(pre)
                  THEN [entered EXCEPT !.ok = FALSE]
                  ELSE LET r == Walk("traverse", pre, entered)
                       IN  IF r.ok
                              THEN [r EXCEPT !.cg = Splice(@), !.ug = Splice(@)]
                              ELSE [r EXCEPT !.out = << >>]
      [] fn = "nested" ->
           \* x.open + transformSource(source.slice(node.start, node.end)) + x.close,
           \* pushed on out
           LET r == Walk("transformSource", SliceProgram(x.node), acc)
           IN  [r EXCEPT !.out = IF r.ok THEN acc.out \o x.open \o r.out \o x.close
                                         ELSE acc.out,
                         !.react = acc.react]
      [] fn = "traverse" ->
           \* traverse(ast.body).forEach over the nodes x, in source order
           IF x = << >> \/ ~acc.ok
              THEN acc
              ELSE Walk("traverse", Tail(x), Walk("visit", Head(x), acc))
      [] fn = "visit" ->
           \* one node: a rewrite, or the node's text with its child nodes visited in turn
           IF x.type = "ImportDeclaration"
              THEN Emit(RecordImport(x, acc), TextOf(x))
           ELSE IF x.type = "CallExpression" /\ IsCreateElementCall(x, acc)
              THEN Walk("handleCreateElement", x, acc)
           ELSE IF /\ x.type = "JSXExpressionContainer"
                   /\ x.expression.type \notin {"Identifier", "FunctionExpression",
                                                "CallExpression"}
              THEN Walk("nested",
                        Slice(x.expression, << "{(function(){return " >>, << "})()}" >>),
                        acc)
           ELSE IF x.type = "JSXElement" /\ x.name \notin LowercaseTags
              THEN Walk("JSXElement", x, acc)
           ELSE IF x.type \in LeafTypes
              THEN Emit(acc, TextOf(x))
           ELSE Walk("traverse", Parts(x), acc)
      [] fn = "JSXElement" ->
           \* case "JSXElement" with a component tag (the programs modelled hold no
           \* element inside another element, so the result is not put in braces)
           LET newName == WrapperName(x.name, 1, TextOf(x))
               kids == Walk("JSXElement children", x.children, [acc EXCEPT !.out = << >>])
           IN  IF ~kids.ok
                  THEN [kids EXCEPT !.out = acc.out]
                  ELSE [kids EXCEPT !.out =
                           acc.out \o << "(()=>{var " >> \o newName
                           \o << " = __wrapSolidComp__(", x.name, ");return ", "<" >>
                           \o newName \o << ">" >> \o kids.out \o << "</" >> \o newName
                           \o << ">", "})()" >>]
      [] fn = "JSXElement children" ->
           \* node.children.reduce(...): each child transformed, an element child put
           \* in braces
           IF x = << >> \/ ~acc.ok
              THEN acc
              ELSE Walk("JSXElement children", Tail(x),
                        IF Head(x).type = "JSXElement"
                           THEN Walk("nested", Slice(Head(x), << "{" >>, << "}" >>), acc)
                           ELSE Walk("nested", Slice(Head(x), << >>, << >>), acc))
      [] fn = "children" ->
           \* handleCreateElement: children.map(...).join("")
           IF x = << >> \/ ~acc.ok
              THEN acc
              ELSE Walk("children", Tail(x),
                        IF Head(x).type = "Identifier"
                           THEN Emit(acc, << "{", Head(x).name, "}" >>)
                        ELSE IF Head(x).type = "JSXElement"
                           THEN Walk("nested", Slice(Head(x), << >>, << >>), acc)
                        ELSE Walk("nested", Slice(Head(x), << "{" >>, << "}" >>), acc))
      [] fn = "properties" ->
           \* handleProps, case "ObjectExpression": props.properties.map(...).join(" "),
           \* x.first telling whether the property is the first one
           IF x.properties = << >> \/ ~acc.ok
              THEN acc
              ELSE Walk("properties", [properties |-> Tail(x.properties), first |-> FALSE],
                        Walk("handleProps", Head(x.properties),
                             IF x.first THEN acc ELSE Emit(acc, << " " >>)))
      [] fn = "handleProps" ->
           \* handleProps(source, props), the text pushed on out
           IF x.type = "ObjectExpression"
              THEN Walk("properties", [properties |-> x.properties, first |-> TRUE], acc)
           ELSE IF x.type = "Identifier"
              THEN acc
           ELSE IF x.type = "Property"
              THEN LET key == AttributeKey(x.key)
                       keyed == Emit([acc EXCEPT !.attrs =
                                         @ \cup {[key |-> x.key, attr |-> key]}],
                                     << key, "=" >>)
                   IN  IF x.value.type = "CallExpression"
                          THEN Walk("nested", Slice(x.value, << "{" >>, << "}" >>), keyed)
                       ELSE IF x.value.type = "Literal" /\ x.value.string
                          THEN Emit(keyed, TextOf(x.value))
                       ELSE Emit(keyed, << "{" >> \o handleValue(x.value) \o << "}" >>)
           ELSE Emit(acc, << "{...(" >> \o TextOf(x) \o << ")}" >>)
      [] fn = "handleCreateElement" ->
           \* handleCreateElement(source, node), the element pushed on out
           LET identifier == x.arguments[1]
               props == x.arguments[2]
               identifierStr == handleValue(identifier)
               kids == Walk("children", SubSeq(x.arguments, 3, Len(x.arguments)),
                            [acc EXCEPT !.out = << >>])
               rendered == Walk("handleProps", props, [kids EXCEPT !.out = << >>])
               childrenStr == kids.out
               propsStr == rendered.out
           IN  IF ~kids.ok
                  THEN [kids EXCEPT !.out = acc.out]
               ELSE IF ~rendered.ok
                  THEN [rendered EXCEPT !.out = acc.out]
               ELSE IF identifier.type \in {"MemberExpression", "LogicalExpression",
                                            "ConditionalExpression"}
                  THEN LET tag == TempClsName(0, identifierStr, propsStr, childrenStr)
                       IN  [rendered EXCEPT
                              !.out = acc.out \o << "(function(){var " >> \o tag
                                      \o << "=__wrapSolidComp__(" >> \o identifierStr
                                      \o << ");return ", "<" >> \o tag \o << " " >>
                                      \o propsStr
                                      \o (IF childrenStr # << >>
                                             THEN << ">" >> \o childrenStr \o << "</" >>
                                                  \o tag \o << ">" >>
                                             ELSE << "/>" >>)
                                      \o << "})()" >>,
                              !.tags = @ \cup {[tag |-> tag,
                                                identifierStr |-> identifierStr,
                                                propsStr |-> propsStr,
                                                childrenStr |-> childrenStr]}]
               ELSE [rendered EXCEPT
                       !.out = acc.out \o << "<" >> \o identifierStr \o << " " >>
                               \o propsStr
                               \o (IF childrenStr # << >>
                                      THEN << ">" >> \o childrenStr \o << "</" >>
                                           \o identifierStr \o << ">" >>
                                      ELSE << " />" >>)]

\* transformSource(source) entered with the stacks and records of env
transformSource(program, env) == Walk("transformSource", program, env)

(***************************************************************************)
(* The translation units handed to transformSource.                        *)
(***************************************************************************)
\* local names the factory is imported under
Aliases == {"createElement", "h", "TempCls"}

\* the import declaration of a unit, if any
ImportChoices ==
    { << >> }
    \cup { << ImportDeclaration("react", "createElement", alias) >> : alias \in Aliases }
    \cup { << ImportDeclaration("other", "createElement", "h") >>,
           << ImportDeclaration("react", "useEffect", "useEffect") >> }

\* React.createElement, a bare call of a factory name, and a call of another function
Callees ==
    { Identifier(alias) : alias \in Aliases }
    \cup { MemberExpression("React", "createElement"), Identifier("render") }

\* the callee of the calls nested in a call of callee
NestedCallee(callee) ==
    IF callee = Identifier("render")
       THEN MemberExpression("React", "createElement")
       ELSE callee

TagChoices ==
    { Literal("div"), Identifier("Foo"), MemberExpression("a", "b"),
      ConditionalExpression(<< "ok", "?", "A", ":", "TempCls" >>),
      ConditionalExpression(<< "ok", "?", "TempCls", ":", "TempCls", "_" >>) }

\* callee("span", {className: "b"})
SpanCall(callee) ==
    CallExpression(callee,
        << Literal("span"),
           ObjectExpression(<< Property("className", Literal("b")) >>) >>)

\* callee(a.b, null)
MemberCall(callee) ==
    CallExpression(callee, << MemberExpression("a", "b"), NullLiteral >>)

PropsChoices(callee) ==
    { NullLiteral,
      ObjectExpression(<< >>),
      ObjectExpression(<< Property("className", Literal("a")) >>),
      ObjectExpression(<< Property("id", Identifier("x")),
                          Property("className", SpanCall(callee)) >>),
      ObjectExpression(<< Property("items", ArrayExpression(<< SpanCall(callee) >>)) >>) }

ChildrenChoices(callee) ==
    { << >>,
      << Literal("hi") >>,
      << Identifier("x"), SpanCall(callee) >>,
      << MemberCall(callee) >>,
      << ObjectExpression(<< Property("p", Identifier("x")),
                             Property("q", Identifier("x")) >>) >> }

CallsOf(callee) ==
    { CallExpression(callee, << tag, props >> \o children) :
        tag \in TagChoices,
        props \in PropsChoices(NestedCallee(callee)),
        children \in ChildrenChoices(NestedCallee(callee)) }

Calls == UNION { CallsOf(callee) : callee \in Callees }

\* units without a call: plain text, an anonymous function, elements, malformed text
MiscBodies ==
    { << Token(<< "x", ";" >>) >>,
      << FunctionDeclaration(<< >>) >>,
      << Token(<< "___", ";" >>), FunctionDeclaration(<< >>) >>,
      << Malformed(<< "a", "b" >>) >>,
      << JSXElement("Foo", << JSXText(<< "hello" >>) >>) >>,
      << JSXElement("Foo", << JSXText(<< "hello", "world" >>) >>) >>,
      << JSXElement("div", << JSXExpressionContainer(BinaryExpression(<< "a", "+", "b" >>)) >>) >>,
      << JSXElement("div", << JSXExpressionContainer(Identifier("x")),
                              JSXText(<< "hello", "world" >>) >>) >> }

\* import {default as R} from "react" followed by a call R.createElement(...), the
\* calls nested in it spelled R.createElement as well
RootUnits ==
    { << ImportDeclaration("react", "default", "R"), call >> :
        call \in CallsOf(MemberExpression("R", "createElement")) }

Units ==
    { import \o << call >> : import \in ImportChoices, call \in Calls }
    \cup { import \o body : import \in ImportChoices, body \in MiscBodies }
    \cup RootUnits

(***************************************************************************)
(* transformSource on a unit that holds one effect-hook call. Here the     *)
(* text is a sequence of cells with 0-based offsets as in the source; the  *)
(* callback body is one character per cell.                                *)
(***************************************************************************)
\* most statements in a callback body
MaxStatements == 2

\* identifier names, one character per cell
EffectNames == { << "a" >>, << "a", "_" >>, << "b" >> }

\* a piece of the body: an identifier with the type of its parent node (and, for a
\* declarator, whether it is the id or the init), or other text
BodyIdentifier(parent, side, name) ==
    [type |-> "Identifier", parent |-> parent, side |-> side, text |-> name]
BodyText(text) == [type |-> "Text", parent |-> "", side |-> "", text |-> text]

\* name;   var name;   var d=name;   this.name;
ReferenceStatement(name) ==
    << BodyIdentifier("ExpressionStatement", "expression", name), BodyText(<< ";" >>) >>
DeclarationStatement(name) ==
    << BodyText(<< "v", "a", "r", " " >>),
       BodyIdentifier("VariableDeclarator", "id", name), BodyText(<< ";" >>) >>
InitStatement(name) ==
    << BodyText(<< "v", "a", "r", " " >>),
       BodyIdentifier("VariableDeclarator", "id", << "d" >>), BodyText(<< "=" >>),
       BodyIdentifier("VariableDeclarator", "init", name), BodyText(<< ";" >>) >>
MemberStatement(name) ==
    << BodyText(<< "t", "h", "i", "s", "." >>),
       BodyIdentifier("MemberExpression", "property", name), BodyText(<< ";" >>) >>

Statements ==
    UNION { { ReferenceStatement(name), DeclarationStatement(name), InitStatement(name),
              MemberStatement(name) } : name \in EffectNames }

RECURSIVE Flatten(_)
Flatten(lists) == IF lists = << >> THEN << >> ELSE Head(lists) \o Flatten(Tail(lists))

\* () => { statements }
BlockBodies ==
    { [block |-> TRUE, parts |-> Flatten(statements)] :
        statements \in ListsOver(Statements, MaxStatements) }

\* () => name   and   () => name(other); in the first the Identifier is the root of
\* traverse(useEffectBlock), which has no parent
ExpressionBodies ==
    { [block |-> FALSE,
       parts |-> << BodyIdentifier("none", "root", name) >>] :
        name \in EffectNames }
    \cup { [block |-> FALSE,
            parts |-> << BodyIdentifier("CallExpression", "callee", name),
                         BodyText(<< "(" >>),
                         BodyIdentifier("CallExpression", "arguments", other),
                         BodyText(<< ")" >>) >>] :
             name \in EffectNames, other \in EffectNames }

\* a unit: whether it imports useEffect from the framework's module, and the callback
EffectUnits ==
    { [imported |-> imported, body |-> body] :
        imported \in BOOLEAN, body \in BlockBodies \cup ExpressionBodies }

\* the text of the pieces
RECURSIVE PartsText(_)
PartsText(parts) ==
    IF parts = << >> THEN << >> ELSE Head(parts).text \o PartsText(Tail(parts))

\* the text before the callback body, the body (node.arguments[0].body), the rest
EffectHead(u) ==
    (IF u.imported THEN << "import{useEffect}from\"react\";" >> ELSE << >>)
    \o << "useEffect", "(", "()=>" >>
EffectBlockSource(u) ==
    IF u.body.block THEN << "{" >> \o PartsText(u.body.parts) \o << "}" >>
                    ELSE PartsText(u.body.parts)
EffectSource(u) == EffectHead(u) \o EffectBlockSource(u) \o << ")", ";" >>

\* useEffectBlock.start, 0-based
EffectBlockStart(u) == Len(EffectHead(u))

\* source.slice(from, to)
SourceSlice(source, from, to) ==
    IF to <= from THEN << >> ELSE SubSeq(source, from + 1, to)

RECURSIVE IdentifiersFrom(_, _)
\* the Identifier nodes of the pieces, with their offsets, the first piece starting at
\* offset at
IdentifiersFrom(parts, at) ==
    IF parts = << >> THEN << >>
    ELSE (IF Head(parts).type = "Identifier"
             THEN << [name |-> Head(parts).text, parent |-> Head(parts).parent,
                      side |-> Head(parts).side, start |-> at,
                      end |-> at + Len(Head(parts).text)] >>
             ELSE << >>)
         \o IdentifiersFrom(Tail(parts), at + Len(Head(parts).text))

\* the Identifier nodes of the callback body, in traversal order
EffectIdentifiers(u) ==
    IdentifiersFrom(u.body.parts, EffectBlockStart(u) + (IF u.body.block THEN 1 ELSE 0))

\* delete identifierMap[name]
WithoutKey(keys, name) == SelectSeq(keys, LAMBDA k : k # name)

RECURSIVE Collect(_, _)
\* traverse(useEffectBlock).forEach(...): identifierMap as its keys in insertion order
\* and the nodes collected under them, and whiteList
Collect(ids, m) ==
    IF ids = << >> THEN m
    ELSE LET child == Head(ids)
             next ==
               IF child.parent = "MemberExpression" /\ child.side # "object"
                  THEN m
               ELSE IF child.parent \in {"VariableDeclarator", "Property"}
                  THEN IF child.name \in m.whiteList
                          THEN m
                          ELSE [m EXCEPT !.whiteList = @ \cup {child.name},
                                         !.keys = WithoutKey(@, child.name),
                                         !.nodes = SelectSeq(@,
                                                     LAMBDA c : c.name # child.name)]
               ELSE IF child.name \in m.whiteList
                  THEN m
               ELSE [m EXCEPT !.keys = IF child.name \in Range(@) THEN @
                                                                   ELSE Append(@, child.name),
                              !.nodes = Append(@, child)]
         IN  Collect(Tail(ids), next)

identifierMap(u) ==
    Collect(EffectIdentifiers(u), [keys |-> << >>, nodes |-> << >>, whiteList |-> {}])

RECURSIVE MaterializedName(_, _, _)
\* let newName = name + "_"; while (useEffectBlockSource.includes(newName)) newName += "_"
MaterializedName(name, n, blockSource) ==
    IF Includes(blockSource, name \o Underscores(n))
       THEN MaterializedName(name, n + 1, blockSource)
       ELSE name \o Underscores(n)

\* `\nvar ${newName} = typeof ${name} === "function" && ... : ${name};`
Declaration(name, newName) ==
    << "\nvar " >> \o newName \o << " = typeof " >> \o name
    \o << " === \"function\" && Symbol.solidPatchDeps in " >> \o name \o << " ? " >>
    \o name \o << "(Symbol.symbolValidate) : " >> \o name \o << ";" >>

\* results.push(source.slice(lastIndex, to)), remembered with its offsets
Copied(r, source, to) ==
    [r EXCEPT !.pieces = Append(@, [kind |-> "copy", from |-> r.lastIndex, to |-> to,
                                    text |-> SourceSlice(source, r.lastIndex, to)])]

\* results.push(text) for generated text standing for source[from, to)
Generated(r, from, to, text) ==
    [r EXCEPT !.pieces = Append(@, [kind |-> "generated", from |-> from, to |-> to,
                                    text |-> text])]

\* lastIndex = to
Advanced(r, to) == [r EXCEPT !.lastIndex = to, !.cursor = Append(@, to)]

RECURSIVE Declare(_, _, _)
\* Object.keys(identifierMap).forEach((name) => { ... })
Declare(keys, u, r) ==
    IF keys = << >> THEN r
    ELSE LET name == Head(keys)
             top == EffectBlockStart(u) + 1
             newName == MaterializedName(name, 1, EffectBlockSource(u))
             copied == Copied(r, EffectSource(u), top)
             declared == Generated(copied, top, top, Declaration(name, newName))
         IN  Declare(Tail(keys), u,
                     [Advanced(declared, top) EXCEPT
                        !.decls = Append(@, [name |-> name, newName |-> newName])])

\* the name generated for name
NewNameOf(r, name) ==
    r.decls[CHOOSE i \in DOMAIN r.decls : r.decls[i].name = name].newName

RECURSIVE Substitute(_, _, _)
\* identifiers.sort((a, b) => a.start - b.start).forEach((identifier) => { ... })
Substitute(identifiers, u, r) ==
    IF identifiers = << >> THEN r
    ELSE LET identifier == Head(identifiers)
             copied == Copied(r, EffectSource(u), identifier.start)
             replaced == Generated(copied, identifier.start, identifier.end,
                                   NewNameOf(r, identifier.name))
         IN  Substitute(Tail(identifiers), u,
                        [Advanced(replaced, identifier.end) EXCEPT
                           !.subs = Append(@, identifier)])

\* the nodes collected under the keys, each key's nodes together, keys in order
RECURSIVE NodesByKey(_, _)
NodesByKey(keys, nodes) ==
    IF keys = << >> THEN << >>
    ELSE SelectSeq(nodes, LAMBDA c : c.name = Head(keys)) \o NodesByKey(Tail(keys), nodes)

RECURSIVE SortedByStart(_)
\* sort((a, b) => a.start - b.start)
SortedByStart(nodes) ==
    IF nodes = << >> THEN << >>
    ELSE LET least == CHOOSE i \in DOMAIN nodes :
                          \A j \in DOMAIN nodes : nodes[i].start <= nodes[j].start
         IN  << nodes[least] >>
             \o SortedByStart([k \in 1..(Len(nodes) - 1) |->
                                  IF k < least THEN nodes[k] ELSE nodes[k + 1]])

RECURSIVE Joined(_)
\* results.join("")
Joined(pieces) ==
    IF pieces = << >> THEN << >> ELSE Head(pieces).text \o Joined(Tail(pieces))

\* hasImportedUseEffect: useEffectNameGroups.some((group) => group.includes(name))
hasImportedUseEffect(name, groups) ==
    \E i \in DOMAIN groups : \E j \in DOMAIN groups[i] : groups[i][j] = name

\* transformSource on the unit u: the effect-hook branch of case "CallExpression" when
\* the callee is an imported effect hook, then the rest of the text
rewriteEffect(u, groups) ==
    LET own == IF u.imported THEN << "useEffect" >> ELSE << >>
        start == [lastIndex |-> 0, cursor |-> << 0 >>, pieces |-> << >>,
                  decls |-> << >>, subs |-> << >>]
        m == identifierMap(u)
        matched == hasImportedUseEffect("useEffect", Append(groups, own))
        declared == Declare(m.keys, u, start)
        rewritten == IF matched
                        THEN Substitute(SortedByStart(NodesByKey(m.keys, m.nodes)), u,
                                        declared)
                        ELSE start
        done == IF rewritten.lastIndex < Len(EffectSource(u))
                   THEN Copied(rewritten, EffectSource(u), Len(EffectSource(u)))
                   ELSE rewritten
        \* this.parent.node.type on the root node: this.parent is undefined
        threw == matched /\ \E i \in DOMAIN EffectIdentifiers(u) :
                                EffectIdentifiers(u)[i].parent = "none"
    IN  IF threw
           THEN [status |-> "thrown", matched |-> matched, lastIndex |-> 0,
                 cursor |-> << 0 >>, pieces |-> << >>, decls |-> << >>, subs |-> << >>,
                 out |-> << >>]
           ELSE [status |-> "returned", matched |-> matched, lastIndex |-> done.lastIndex,
                 cursor |-> done.cursor, pieces |-> done.pieces, decls |-> done.decls,
                 subs |-> done.subs, out |-> Joined(done.pieces)]

\* no unit with an effect-hook call transformed yet
HookIdle == hook = [status |-> "idle", unit |-> << >>]

\* no invocation in progress
XfIdle ==
    /\ HookIdle
    /\ unit = << >>
    /\ entry = [cg |-> createElementNameGroups, ug |-> useEffectNameGroups]
    /\ outcome = [status |-> "idle", out |-> << >>]
    /\ generated = [attrs |-> {}, tags |-> {}]

\* the module is loaded: const createElementNameGroups = [], useEffectNameGroups = []
XfInit ==
    /\ createElementNameGroups = << >>
    /\ useEffectNameGroups = << >>
    /\ XfIdle


(***************************************************************************)
(* hooks.ts useRef and index.tsx Children.                                 *)
(***************************************************************************)
\* values a caller passes
Values == {"null", "undefined", "a", "b"}

\* what Children.only is given: a single value, or an array of values
ChildrenInputs ==
    { [array |-> FALSE, items |-> << v >>] : v \in Values }
    \cup { [array |-> TRUE, items |-> items] : items \in ListsOver(Values, MaxChildren) }

\* mutant: the initial value is stored as given
InitialCurrent_AsGiven(initialValue) == initialValue

\* ref.current = initialValue === null ? undefined : initialValue
InitialCurrent(initialValue) ==
    IF initialValue = "null" THEN "undefined" ELSE initialValue

\* mutant: an array of one or more elements yields its first element
ChildrenOnly_First(children) ==
    IF children.array /\ children.items = << >>
       THEN [threw |-> TRUE, value |-> "Error: Children must be a single element"]
       ELSE [threw |-> FALSE, value |-> children.items[1]]

\* Children.only: if (Array.isArray(children)) throw new Error(...) else return children
ChildrenOnly(children) ==
    IF children.array
       THEN [threw |-> TRUE, value |-> "Error: Children must be a single element"]
       ELSE [threw |-> FALSE, value |-> children.items[1]]

\* Children.count: Array.isArray(children) ? children.length : 1
ChildrenCount(children) == IF children.array THEN Len(children.items) ELSE 1

\* Children.toArray: Array.isArray(children) ? children : [children]
ChildrenToArray(children) == children.items

\* Children.map with the callback fn(child, index) = [child, index]: null and undefined
\* are handed back as they are; a single value is mapped as a list of one, index 0
ChildrenMap(children) ==
    [i \in DOMAIN children.items |->
        IF children.items[i] \in {"null", "undefined"}
           THEN children.items[i]
           ELSE << children.items[i], i - 1 >>]

\* no ref yet, no call made
ApIdle ==
    /\ current = "none"
    /\ apiCall = [fn |-> "none", arg |-> << >>, array |-> FALSE, threw |-> FALSE, value |-> "none"]


(***************************************************************************)
(* Initial state: the component function is about to run.                  *)
(***************************************************************************)
RtInit ==
    /\ pc = "render"
    /\ signal = InitialState
    /\ dirty = [s \in Containers |-> FALSE]
    /\ cache = [s \in Containers |-> 0]
    /\ mq = << >>
    /\ effects = << >>
    /\ edeps = [f \in Flavors |-> {}]
    /\ cleanup = [f \in Flavors |-> 0]
    /\ runs = [f \in Flavors |-> 0]
    /\ pass = 1
    /\ trace = << >>
    /\ lastRet = [f \in Flavors |-> 0]
    /\ lastHops = [f \in Flavors |-> 0]
    /\ written = [s \in Containers |-> << >>]
    /\ wbase = [s \in Containers |-> 0]
    /\ ncommit = [s \in Containers |-> 0]
    /\ evals = [f \in Flavors |-> 0]
    /\ nwrites = 0
    /\ ntasks = 0

Init == RtInit /\ TkIdle /\ wdeps = [w \in Wrappers |-> << >>] /\ XfInit /\ ApIdle

(***************************************************************************)
(* Actions.                                                                *)
(***************************************************************************)
\* useEffect / useLayoutEffect / useInsertionEffect(effect, deps) during render:
\* createEffect evaluates the computation once, in the mount pass
UseEffect(f, d) ==
    /\ pc = "render"
    /\ f \notin Range(effects)
    /\ effects' = Append(effects, f)
    /\ edeps' = [edeps EXCEPT ![f] = d]
    /\ mq' = mq \o Scheduled(<< f >>, pass)
    /\ evals' = [evals EXCEPT ![f] = @ + 1]
    /\ UNCHANGED << pc, signal, dirty, cache, cleanup, runs, pass, trace, lastRet, lastHops,
                    written, wbase, ncommit, nwrites, ntasks,
                    tkVars, xfVars, apVars >>

\* the synchronous block (render or an event handler) returns: the queue drains
EndTask ==
    /\ pc \in {"render", "task"}
    /\ pc = "task" => \E s \in Containers : written[s] # << >>
    /\ pc' = "micro"
    /\ UNCHANGED << signal, dirty, cache, mq, effects, edeps, cleanup, runs, pass,
                    trace, lastRet, lastHops, written, wbase, ncommit, evals, nwrites, ntasks,
                    tkVars, xfVars, apVars >>

\* an event handler starts once the microtask queue is empty
StartTask ==
    /\ pc = "micro"
    /\ mq = << >>
    /\ nwrites < MaxWrites
    /\ pc' = "task"
    /\ ntasks' = ntasks + 1
    /\ trace' = << >>
    /\ written' = [s \in Containers |-> << >>]
    /\ ncommit' = [s \in Containers |-> 0]
    /\ evals' = [f \in Flavors |-> 0]
    /\ UNCHANGED << signal, dirty, cache, mq, effects, edeps, cleanup, runs, pass,
                    lastRet, lastHops, wbase, nwrites,
                    tkVars, xfVars, apVars >>

\* setCount(a) in an event handler
SetState(a) ==
    /\ pc = "task"
    /\ nwrites < MaxWrites
    /\ setSignalWrapped("count", a)
    /\ written' = [written EXCEPT !["count"] = Append(@, a)]
    /\ wbase' = IF written["count"] = << >>
                   THEN [wbase EXCEPT !["count"] = signal["count"]]
                   ELSE wbase
    /\ nwrites' = nwrites + 1
    /\ UNCHANGED << pc, signal, effects, edeps, cleanup, runs, pass, trace, lastRet, lastHops,
                    ncommit, evals, ntasks,
                    tkVars, xfVars, apVars >>

\* dispatch(action) in an event handler
Dispatch(action) ==
    /\ pc = "task"
    /\ nwrites < MaxWrites
    /\ setSignalWrapped("state", DispatchArg(action))
    /\ written' = [written EXCEPT !["state"] = Append(@, action)]
    /\ wbase' = IF written["state"] = << >>
                   THEN [wbase EXCEPT !["state"] = signal["state"]]
                   ELSE wbase
    /\ nwrites' = nwrites + 1
    /\ UNCHANGED << pc, signal, effects, edeps, cleanup, runs, pass, trace, lastRet, lastHops,
                    ncommit, evals, ntasks,
                    tkVars, xfVars, apVars >>

\* the flush microtask: setSignal(cache); dirty = false. The underlying setter
\* propagates to the subscribed computations when the value changed.
Flush ==
    /\ pc = "micro"
    /\ mq # << >>
    /\ Head(mq).kind = "flush"
    /\ LET s == Head(mq).s
           changed == FlushedValue(s) # signal[s]
           obs == IF changed THEN Observers(s) ELSE << >>
       IN  /\ signal' = [signal EXCEPT ![s] = FlushedValue(s)]
           /\ dirty' = [dirty EXCEPT ![s] = FALSE]
           /\ ncommit' = [ncommit EXCEPT ![s] = @ + 1]
           /\ pass' = IF changed THEN pass + 1 ELSE pass
           /\ mq' = Tail(mq) \o Scheduled(obs, pass + 1)
           /\ evals' = [f \in Flavors |->
                           IF f \in Range(obs) THEN evals[f] + 1 ELSE evals[f]]
    /\ UNCHANGED << pc, cache, effects, edeps, cleanup, runs, trace, lastRet, lastHops,
                    written, wbase, nwrites, ntasks,
                    tkVars, xfVars, apVars >>

\* a continuation that only chains the next microDelay.then
Hop ==
    /\ pc = "micro"
    /\ mq # << >>
    /\ Head(mq).kind = "hop"
    /\ Head(mq).left > 1
    /\ mq' = Append(Tail(mq), [Head(mq) EXCEPT !.left = @ - 1, !.done = @ + 1])
    /\ UNCHANGED << pc, signal, dirty, cache, effects, edeps, cleanup, runs, pass,
                    trace, lastRet, lastHops, written, wbase, ncommit, evals, nwrites, ntasks,
                    tkVars, xfVars, apVars >>

\* the last continuation of an effect: previous cleanup, then the body
RunEffect(ret) ==
    /\ pc = "micro"
    /\ mq # << >>
    /\ Head(mq).kind = "hop"
    /\ Head(mq).left = 1
    /\ LET f == Head(mq).e
       IN  /\ trace' = trace \o BodyEvents(f, ret)
           /\ cleanup' = [cleanup EXCEPT ![f] = StoredCleanup(f, ret)]
           /\ lastRet' = [lastRet EXCEPT ![f] = IF ret THEN runs[f] + 1 ELSE 0]
           /\ lastHops' = [lastHops EXCEPT ![f] = Head(mq).done + 1]
           /\ runs' = [runs EXCEPT ![f] = @ + 1]
    /\ mq' = Tail(mq)
    /\ UNCHANGED << pc, signal, dirty, cache, effects, edeps, pass, written, wbase,
                    ncommit, evals, nwrites, ntasks,
                    tkVars, xfVars, apVars >>

Next ==
    \/ \E f \in Flavors, d \in DepChoices : UseEffect(f, d)
    \/ EndTask
    \/ StartTask
    \/ \E a \in SetStateActions : SetState(a)
    \/ \E action \in ReducerActions : Dispatch(action)
    \/ Flush
    \/ Hop
    \/ \E ret \in BOOLEAN : RunEffect(ret)

Spec == Init /\ [][Next]_vars

(***************************************************************************)
(* A page with a computation that writes the state it reads.               *)
(***************************************************************************)
\* the flush microtask of count when a computation subscribed to count (the render
\* effect of a useMemo whose factory reads count) calls setCount(a): setSignal(cache)
\* runs the computation before it returns, the setter finds dirty still true, so it
\* schedules nothing and only replaces cache; then dirty = false
FlushReentrant(a) ==
    /\ pc = "micro"
    /\ mq # << >>
    /\ Head(mq).kind = "flush"
    /\ Head(mq).s = "count"
    /\ FlushedValue("count") # signal["count"]
    /\ signal' = [signal EXCEPT !["count"] = FlushedValue("count")]
    /\ cache' = [cache EXCEPT !["count"] = ApplySetStateAction(a, PendingBase("count"))]
    /\ dirty' = [dirty EXCEPT !["count"] = FALSE]
    /\ mq' = (IF SchedulesFlush("count")
                 THEN Append(Tail(mq), FlushTask("count", Len(written["count"]) + 1))
                 ELSE Tail(mq))
             \o Scheduled(Observers("count"), pass + 1)
    /\ ncommit' = [ncommit EXCEPT !["count"] = @ + 1]
    /\ pass' = pass + 1
    /\ evals' = [f \in Flavors |->
                    IF f \in Range(Observers("count")) THEN evals[f] + 1 ELSE evals[f]]
    /\ written' = [written EXCEPT !["count"] = Append(@, a)]
    /\ nwrites' = nwrites + 1
    /\ UNCHANGED << pc, effects, edeps, cleanup, runs, trace, lastRet, lastHops,
                    wbase, ntasks, tkVars, xfVars, apVars >>

ReNext ==
    \/ EndTask
    \/ StartTask
    \/ \E a \in SetStateActions : SetState(a)
    \/ \E action \in ReducerActions : Dispatch(action)
    \/ Flush
    \/ \E a \in SetStateActions : FlushReentrant(a)

SpecReentrant == Init /\ [][ReNext]_vars

(***************************************************************************)
(* trackDeps as a call-stack machine.                                      *)
(***************************************************************************)
\* the wrappers exist, their dependency arrays filled; state getters record []
TkInit ==
    /\ RtInit
    /\ TkIdle
    /\ wdeps \in [Wrappers -> RecordedLists]
    /\ wdeps["count"] = << >>
    /\ XfInit
    /\ ApIdle

\* a call starts
StartCall(o, started, log) ==
    /\ tstatus = "idle"
    /\ op' = o
    /\ stack' = started.stack
    /\ tstatus' = IF ~started.ok THEN "overflow"
                  ELSE IF started.stack = << >> THEN "done" ELSE "running"
    /\ invoked' = [w \in Wrappers |-> 0]
    /\ calls' = log

\* a computation (an effect, useCallback's render effect) evaluates trackDeps(list)
TrackDeps(list) ==
    /\ StartCall([kind |-> "trackDeps", list |-> list, w |-> "", validate |-> FALSE],
                 CallTrackDeps(<< >>, list), << list >>)
    /\ subs' = {}
    /\ result' = NoValue
    /\ ranUser' = {}
    /\ UNCHANGED << rtVars, xfVars, apVars, wdeps, memoCache >>

\* a caller invokes the state getter (any argument): signal(), then dirty ? cache : value
InvokeState(w, validate) ==
    /\ Kind(w) = "state"
    /\ StartCall([kind |-> "invoke", list |-> << >>, w |-> w, validate |-> validate],
                 [stack |-> << >>, ok |-> TRUE], << >>)
    /\ subs' = {w}
    /\ result' = [t |-> "value", v |-> wrappedSignal(w)]
    /\ ranUser' = {}
    /\ UNCHANGED << rtVars, xfVars, apVars, wdeps, memoCache >>

\* a caller invokes the useCallback wrapper: the Proxy's apply trap
InvokeCallback(w, validate) ==
    /\ Kind(w) = "callback"
    /\ StartCall([kind |-> "invoke", list |-> << >>, w |-> w, validate |-> validate],
                 [stack |-> << >>, ok |-> TRUE], << >>)
    /\ subs' = {}
    /\ result' = callbackApply(validate).value
    /\ ranUser' = callbackApply(validate).ran
    /\ UNCHANGED << rtVars, xfVars, apVars, wdeps, memoCache >>

\* a caller invokes the useMemo wrapper (any argument): trackDeps(deps); return cache
InvokeMemo(w, validate) ==
    /\ Kind(w) = "memo"
    /\ LET started == CallTrackDeps(<< >>, wdeps[w])
           returns == started.ok /\ started.stack = << >>
       IN  /\ StartCall([kind |-> "invoke", list |-> << >>, w |-> w, validate |-> validate],
                        started, << wdeps[w] >>)
           /\ result' = IF returns THEN memoReturn.value ELSE NoValue
           /\ ranUser' = IF returns THEN memoReturn.ran ELSE {}
    /\ subs' = {}
    /\ UNCHANGED << rtVars, xfVars, apVars, wdeps, memoCache >>

\* one step of the innermost activation of trackDeps
TrackStep ==
    /\ tstatus = "running"
    /\ LET top == stack[Len(stack)]
           below == SubSeq(stack, 1, Len(stack) - 1)
           dep == top.list[top.i]
           advanced == [top EXCEPT !.i = @ + 1, !.seen = @ \cup {dep}]
           \* what this step does: the new stack, whether the engine's stack held,
           \* the wrapper invoked, the signal subscribed, the trackDeps calls made
           step ==
             CASE top.redo # "" ->
                    \* the memo wrapper returned: trackDeps(dep[solidPatchDeps])
                    LET c == CallTrackDeps(Append(below, [top EXCEPT !.redo = ""]),
                                           wdeps[top.redo])
                    IN  [stack |-> c.stack, ok |-> c.ok, inv |-> {}, sub |-> {},
                         log |-> << wdeps[top.redo] >>]
               [] top.redo = "" /\ top.i > Len(top.list) ->
                    \* forEach is over: depMap.clear(), return
                    [stack |-> below, ok |-> TRUE, inv |-> {}, sub |-> {}, log |-> << >>]
               [] top.redo = "" /\ top.i <= Len(top.list)
                    /\ (~Tagged(dep) \/ AlreadyTracked(top, dep)) ->
                    [stack |-> Append(below, [top EXCEPT !.i = @ + 1]), ok |-> TRUE,
                     inv |-> {}, sub |-> {}, log |-> << >>]
               [] OTHER ->
                    \* depMap.set(dep, true); dep(symbolValidate); trackDeps(dep[solidPatchDeps])
                    CASE Kind(dep) = "state" ->
                           [stack |-> Append(below, advanced), ok |-> TRUE,
                            inv |-> {dep}, sub |-> {dep}, log |-> << wdeps[dep] >>]
                      [] Kind(dep) = "callback" ->
                           LET c == CallTrackDeps(Append(below, advanced), wdeps[dep])
                           IN  [stack |-> c.stack, ok |-> c.ok, inv |-> {dep}, sub |-> {},
                                log |-> << wdeps[dep] >>]
                      [] Kind(dep) = "memo" ->
                           \* the wrapper itself calls trackDeps(deps) before returning
                           IF wdeps[dep] = << >>
                              THEN [stack |-> Append(below, advanced), ok |-> TRUE,
                                    inv |-> {dep}, sub |-> {},
                                    log |-> << wdeps[dep], wdeps[dep] >>]
                              ELSE LET c == CallTrackDeps(
                                              Append(below, [advanced EXCEPT !.redo = dep]),
                                              wdeps[dep])
                                   IN  [stack |-> c.stack, ok |-> c.ok, inv |-> {dep},
                                        sub |-> {}, log |-> << wdeps[dep] >>]
           returns == step.ok /\ step.stack = << >>
       IN  /\ stack' = step.stack
           /\ tstatus' = IF ~step.ok THEN "overflow"
                         ELSE IF returns THEN "done" ELSE "running"
           /\ invoked' = [w \in Wrappers |->
                             IF w \in step.inv THEN invoked[w] + 1 ELSE invoked[w]]
           /\ subs' = subs \cup step.sub
           /\ calls' = calls \o step.log
           /\ result' = IF returns /\ op.kind = "invoke" THEN memoReturn.value ELSE result
           /\ ranUser' = IF returns /\ op.kind = "invoke"
                            THEN ranUser \cup memoReturn.ran ELSE ranUser
    /\ UNCHANGED << rtVars, xfVars, apVars, wdeps, memoCache, op >>

\* the count signal changes: useMemo's render effect runs cache = factory(), and
\* useCallback's render effect, when its list reaches count, runs trackDeps(deps)
Commit(v) ==
    /\ v # signal["count"]
    /\ signal' = [signal EXCEPT !["count"] = v]
    /\ memoCache' = Factory(v)
    /\ LET list == IF "count" \in SignalsOf(wdeps["increment"])
                      THEN wdeps["increment"] ELSE << >>
       IN  StartCall([kind |-> "trackDeps", list |-> list, w |-> "", validate |-> FALSE],
                     CallTrackDeps(<< >>, list), << >>)
    /\ subs' = {}
    /\ result' = NoValue
    /\ ranUser' = {}
    /\ UNCHANGED << pc, dirty, cache, mq, effects, edeps, cleanup, runs, pass, trace,
                    lastRet, lastHops, written, wbase, ncommit, evals, nwrites, ntasks, wdeps,
                    xfVars, apVars >>

\* the call has returned to its caller: the per-call records are cleared
Return ==
    /\ tstatus = "done"
    /\ tstatus' = "idle"
    /\ op' = [kind |-> "none", list |-> << >>, w |-> "", validate |-> FALSE]
    /\ invoked' = [w \in Wrappers |-> 0]
    /\ subs' = {}
    /\ calls' = << >>
    /\ result' = NoValue
    /\ ranUser' = {}
    /\ UNCHANGED << rtVars, xfVars, apVars, wdeps, memoCache, stack >>

TkNext ==
    \/ \E list \in DeclaredLists : TrackDeps(list)
    \/ \E w \in Wrappers, validate \in BOOLEAN : InvokeState(w, validate)
    \/ \E w \in Wrappers, validate \in BOOLEAN : InvokeCallback(w, validate)
    \/ \E w \in Wrappers, validate \in BOOLEAN : InvokeMemo(w, validate)
    \/ TrackStep
    \/ \E v \in CountValues : Commit(v)
    \/ Return

SpecTrack == TkInit /\ [][TkNext]_vars

(***************************************************************************)
(* The loader: transformSource called on one unit after another.           *)
(***************************************************************************)
\* a top-level call transformSource(source) on some unit: it returns the rewritten
\* text or throws
TransformUnit ==
    /\ outcome.status = "idle"
    /\ Len(createElementNameGroups) < MaxGroups
    /\ \E program \in Units :
          LET r == transformSource(program,
                      [ok |-> TRUE, out |-> << >>, cg |-> createElementNameGroups,
                       ug |-> useEffectNameGroups, react |-> "React",
                       attrs |-> {}, tags |-> {}])
          IN  /\ createElementNameGroups' = r.cg
              /\ useEffectNameGroups' = r.ug
              /\ outcome' = [status |-> IF r.ok THEN "returned" ELSE "thrown",
                             out |-> r.out]
              /\ generated' = [attrs |-> r.attrs, tags |-> r.tags]
              /\ unit' = program
    /\ entry' = [cg |-> createElementNameGroups, ug |-> useEffectNameGroups]
    /\ UNCHANGED << hook, rtVars, tkVars, apVars >>

\* the caller has the text or the error; the next unit may follow
NextUnit ==
    /\ outcome.status # "idle"
    /\ unit' = << >>
    /\ entry' = [cg |-> createElementNameGroups, ug |-> useEffectNameGroups]
    /\ outcome' = [status |-> "idle", out |-> << >>]
    /\ generated' = [attrs |-> {}, tags |-> {}]
    /\ UNCHANGED << createElementNameGroups, useEffectNameGroups, hook,
                    rtVars, tkVars, apVars >>

XfNext ==
    \/ TransformUnit
    \/ NextUnit

\* the module is loaded: both stacks empty, nothing else has run
XfStart == XfInit /\ RtInit /\ TkIdle /\ wdeps = [w \in Wrappers |-> << >>] /\ ApIdle

SpecTransform == XfStart /\ [][XfNext]_vars

(***************************************************************************)
(* The loader on units that hold an effect-hook call.                      *)
(***************************************************************************)
\* a top-level call transformSource(source) on a unit with one effect-hook call: it
\* returns the rewritten text, or throws and leaves its two lists on the stacks
TransformEffectUnit ==
    /\ hook.status = "idle"
    /\ Len(useEffectNameGroups) < MaxGroups
    /\ \E u \in EffectUnits :
          LET r == rewriteEffect(u, useEffectNameGroups)
          IN  /\ hook' = [status |-> r.status, unit |-> u, matched |-> r.matched,
                          cursor |-> r.cursor, pieces |-> r.pieces, decls |-> r.decls,
                          subs |-> r.subs, out |-> r.out]
              /\ useEffectNameGroups' =
                    IF r.status = "thrown"
                       THEN Append(useEffectNameGroups,
                                   IF u.imported THEN << "useEffect" >> ELSE << >>)
                       ELSE useEffectNameGroups
              /\ createElementNameGroups' =
                    IF r.status = "thrown"
                       THEN Append(createElementNameGroups, << >>)
                       ELSE createElementNameGroups
    /\ UNCHANGED << unit, entry, outcome, generated, rtVars, tkVars, apVars >>

\* the caller has the text or the error; the next unit may follow
NextEffectUnit ==
    /\ hook.status # "idle"
    /\ hook' = [status |-> "idle", unit |-> << >>]
    /\ UNCHANGED << createElementNameGroups, useEffectNameGroups, unit, entry, outcome,
                    generated, rtVars, tkVars, apVars >>

EfNext ==
    \/ TransformEffectUnit
    \/ NextEffectUnit

SpecEffect == XfStart /\ [][EfNext]_vars

(***************************************************************************)
(* useRef and Children as called by components.                            *)
(***************************************************************************)
\* const ref = useRef(initialValue)
UseRef(initialValue) ==
    /\ current = "none"
    /\ current' = InitialCurrent(initialValue)
    /\ apiCall' = [fn |-> "useRef", arg |-> << initialValue >>, array |-> FALSE,
                   threw |-> FALSE,
                   value |-> "ref"]
    /\ UNCHANGED << rtVars, tkVars, xfVars >>

\* ref(v): the ref used as an attach callback
RefCall(v) ==
    /\ current # "none"
    /\ current' = v
    /\ apiCall' = [fn |-> "ref", arg |-> << v >>, array |-> FALSE, threw |-> FALSE,
                   value |-> "undefined"]
    /\ UNCHANGED << rtVars, tkVars, xfVars >>

\* ref.current = v
RefWrite(v) ==
    /\ current # "none"
    /\ current' = v
    /\ apiCall' = [fn |-> "set current", arg |-> << v >>, array |-> FALSE,
                   threw |-> FALSE, value |-> v]
    /\ UNCHANGED << rtVars, tkVars, xfVars >>

\* ref.current
RefRead ==
    /\ current # "none"
    /\ apiCall' = [fn |-> "get current", arg |-> << >>, array |-> FALSE,
                   threw |-> FALSE, value |-> current]
    /\ UNCHANGED << current, rtVars, tkVars, xfVars >>

\* Children.only(children), called by a component
CallChildrenOnly(children) ==
    /\ apiCall' = [fn |-> "Children.only", arg |-> children.items,
                   array |-> children.array,
                   threw |-> ChildrenOnly(children).threw,
                   value |-> ChildrenOnly(children).value]
    /\ UNCHANGED << current, rtVars, tkVars, xfVars >>

ApNext ==
    \/ \E initialValue \in Values : UseRef(initialValue)
    \/ \E v \in Values : RefCall(v)
    \/ \E v \in Values : RefWrite(v)
    \/ RefRead
    \/ \E children \in ChildrenInputs : CallChildrenOnly(children)

\* a component is about to call useRef / Children.only
ApStart == ApIdle /\ RtInit /\ TkIdle /\ wdeps = [w \in Wrappers |-> << >>] /\ XfInit

SpecApi == ApStart /\ [][ApNext]_vars

(***************************************************************************)
(* Properties of the state containers and the effect family.               *)
(***************************************************************************)
\* pending flush microtasks of container s
FlushesOf(s) == { i \in DOMAIN mq : mq[i].kind = "flush" /\ mq[i].s = s }

\* C1: the setter calls a task issues to a state container lead to exactly one call
\* of the underlying signal setter: until it is made, exactly one flush microtask is
\* queued, the one scheduled by the first call; after it, none is queued.
C1_OneCommitPerBatch ==
    \A s \in Containers :
        /\ written[s] = << >> => ncommit[s] = 0 /\ FlushesOf(s) = {}
        /\ written[s] # << >> =>
              /\ ncommit[s] + Cardinality(FlushesOf(s)) = 1
              /\ \A i \in FlushesOf(s) : mq[i].nth = 1

\* two synchronous setter calls, the queue has drained, one commit was made
C1_Witness ==
    /\ pc = "micro"
    /\ mq = << >>
    /\ Len(written["count"]) = 2
    /\ ncommit["count"] = 1

\* the writes ws applied in issuance order to value v
RECURSIVE AppliedInOrder(_, _)
AppliedInOrder(ws, v) ==
    IF ws = << >>
       THEN v
       ELSE AppliedInOrder(Tail(ws),
                           IF Head(ws).form = "updater" THEN v + Head(ws).n
                                                        ELSE Head(ws).n)

\* C2: the value the flush commits is the task's writes applied, in issuance order,
\* to the value committed before the task's first write.
C2_CommitAppliesWritesInOrder ==
    ncommit["count"] = 1 =>
        signal["count"] = AppliedInOrder(written["count"], wbase["count"])

\* the spec's example: 0, then c => c + 1, then c => c + 2, commits 3
C2_Witness ==
    /\ ncommit["count"] = 1
    /\ wbase["count"] = 0
    /\ written["count"] = << [form |-> "updater", n |-> 1], [form |-> "updater", n |-> 2] >>
    /\ signal["count"] = 3

\* the rank of a flavor in the firing order insertion, layout, passive
FiringRank(f) ==
    CASE f = "insertion" -> 1
      [] f = "layout" -> 2
      [] f = "passive" -> 3

\* C3: bodies of effects evaluated in the same reactive pass run in the order
\* insertion, layout, passive, whatever the declaration order.
C3_EffectOrder ==
    \A i, j \in DOMAIN trace :
        ( /\ i < j
          /\ trace[i].ev = "body"
          /\ trace[j].ev = "body"
          /\ trace[i].pass = trace[j].pass )
        => FiringRank(trace[i].e) < FiringRank(trace[j].e)

\* declared passive, insertion, layout; all three bodies of the mount pass have run
C3_Witness ==
    /\ effects = << "passive", "insertion", "layout" >>
    /\ Len(trace) = 3
    /\ trace[1].e = "insertion" /\ trace[1].pass = 1
    /\ trace[2].e = "layout" /\ trace[2].pass = 1
    /\ trace[3].e = "passive" /\ trace[3].pass = 1

\* C4: when the previous body run of an effect returned a cleanup, that cleanup is
\* invoked immediately before the next body run of the effect, in the same microtask.
C4_CleanupBeforeBody ==
    \A i \in DOMAIN trace :
        (trace[i].ev = "body" /\ trace[i].prev # 0) =>
            /\ i > 1
            /\ trace[i - 1].ev = "cleanup"
            /\ trace[i - 1].e = trace[i].e
            /\ trace[i - 1].id = trace[i].prev

\* a re-evaluated effect whose previous body run returned a cleanup
C4_Witness ==
    \E i \in DOMAIN trace :
        /\ trace[i].ev = "body"
        /\ trace[i].prev # 0
        /\ trace[i].id = trace[i].prev + 1

\* C5: the writes of one task are one downstream propagation, also across two
\* containers: an effect subscribed to both is evaluated at most once per task.
C5_SinglePropagation ==
    \A f \in Range(effects) :
        (pc # "render" /\ edeps[f] = Containers) => evals[f] <= 1

\* the reducer folded over the actions as, in dispatch order, from state v
RECURSIVE FoldReducer(_, _)
FoldReducer(as, v) ==
    IF as = << >> THEN v ELSE FoldReducer(Tail(as), reducer(v, Head(as)))

\* C9: the dispatches of one task make exactly one commit, of the reducer folded over
\* the actions in dispatch order from the state committed before the first dispatch.
C9_DispatchFold ==
    /\ written["state"] # << >> =>
          ncommit["state"] + Cardinality(FlushesOf("state")) = 1
    /\ ncommit["state"] = 1 =>
          signal["state"] = FoldReducer(written["state"], wbase["state"])

\* two dispatches in one task, committed once
C9_Witness ==
    /\ Len(written["state"]) = 2
    /\ written["state"][1].type = "increment"
    /\ written["state"][2].type = "decrement"
    /\ ncommit["state"] = 1
    /\ FlushesOf("state") = {}
    /\ signal["state"] = wbase["state"] - 1

(***************************************************************************)
(* Properties of trackDeps and of the tagged wrappers.                     *)
(***************************************************************************)
\* the wrappers reached from list entry a, a included
ReachedFrom(a) == {a} \cup Reachable(wdeps[a])

\* w is listed twice, or reached from two different tagged entries of the list
SharedIn(list, w) ==
    \/ Cardinality({ i \in DOMAIN list : list[i] = w }) >= 2
    \/ \E a, b \in TaggedIn(list) :
          a # b /\ w \in ReachedFrom(a) /\ w \in ReachedFrom(b)

\* some wrapper's recorded list reaches the wrapper itself
Cyclic == \E w \in Wrappers : w \in Reachable(wdeps[w])

\* C6: during one trackDeps call over an acyclic graph, a tagged wrapper that is listed
\* twice or shared by two listed wrappers is invoked exactly once.
C6_SharedInvokedOnce ==
    (op.kind = "trackDeps" /\ ~Cyclic /\ tstatus \in {"running", "done"}) =>
        \A w \in Wrappers :
            SharedIn(op.list, w) =>
                /\ invoked[w] <= 1
                /\ tstatus = "done" => invoked[w] = 1

\* C7: trackDeps returns for every dependency graph, cyclic ones included: the
\* recursion never outgrows the call stack.
C7_TrackDepsTerminates == tstatus # "overflow"

\* the recursion outgrows the call stack only on a cyclic graph
OverflowOnlyIfCyclic == tstatus = "overflow" => Cyclic

\* the cached current value of a wrapper
CachedValue(w) ==
    CASE Kind(w) = "state" -> [t |-> "value", v |-> wrappedSignal(w)]
      [] Kind(w) = "memo" -> [t |-> "value", v |-> memoCache]
      [] Kind(w) = "callback" -> [t |-> "function", v |-> 0]

\* an invocation with the validate sentinel has returned
ValidateReturned == op.kind = "invoke" /\ op.validate /\ tstatus = "done"

\* C8 as stated: every tagged wrapper invoked with the validate sentinel returns its
\* cached current value and subscribes the caller's scope to nothing.
C8_ValidateNeverSubscribes ==
    ValidateReturned => (result = CachedValue(op.w) /\ subs = {})

\* C8 amended: every tagged wrapper invoked with the validate sentinel returns its
\* cached current value without running a user function; only the useCallback wrapper
\* subscribes to nothing, the state getter subscribes the caller to its signal and the
\* useMemo wrapper to the state getters its dependency list reaches.
C8_ValidateReturnsCached ==
    ValidateReturned =>
        /\ result = CachedValue(op.w)
        /\ ranUser = {}
        /\ subs = CASE Kind(op.w) = "callback" -> {}
                    [] Kind(op.w) = "state" -> {op.w}
                    [] Kind(op.w) = "memo" -> SignalsOf(wdeps[op.w])

\* the useCallback wrapper was invoked with the sentinel and returned its cache
C8_Witness ==
    /\ ValidateReturned
    /\ Kind(op.w) = "callback"
    /\ result = [t |-> "function", v |-> 0]
    /\ subs = {}

\* C10: an invocation of the useMemo wrapper first calls trackDeps on the declared
\* list, never runs the factory, and returns the value of the latest factory run,
\* which the render effect made when count last changed.
C10_MemoWrapper ==
    (op.kind = "invoke" /\ Kind(op.w) = "memo") =>
        /\ calls # << >>
        /\ calls[1] = wdeps[op.w]
        /\ "factory" \notin ranUser
        /\ tstatus = "done" =>
              result = [t |-> "value", v |-> Factory(signal["count"])]

\* count changed to 1, the render effect ran the factory, the wrapper returned 2
C10_Witness ==
    /\ op.kind = "invoke"
    /\ Kind(op.w) = "memo"
    /\ wdeps[op.w] = << "count" >>
    /\ tstatus = "done"
    /\ signal["count"] = 1
    /\ result = [t |-> "value", v |-> 2]
    /\ subs = {"count"}

(***************************************************************************)
(* Properties of the transform engine.                                     *)
(***************************************************************************)
RECURSIVE NodesOf(_)
\* every node of a list of nodes, the nested ones included
NodesOf(nodes) ==
    IF nodes = << >>
       THEN {}
       ELSE {Head(nodes)}
            \cup (IF Head(nodes).type \in LeafTypes THEN {} ELSE NodesOf(Parts(Head(nodes))))
            \cup NodesOf(Tail(nodes))

CallsIn(nodes) == { m \in NodesOf(nodes) : m.type = "CallExpression" }

\* the names called as plain functions
BareCallees(nodes) ==
    { m.callee.name : m \in { c \in CallsIn(nodes) : c.callee.type = "Identifier" } }

\* some call is spelled React.createElement(...)
HasRootCall(nodes) ==
    \E m \in CallsIn(nodes) :
        /\ m.callee.type = "MemberExpression"
        /\ m.callee.object = "React"
        /\ m.callee.property = "createElement"

FrameworkImports(nodes) ==
    { m \in NodesOf(nodes) : m.type = "ImportDeclaration" /\ m.source = "react" }

\* the local names this unit imports createElement under
ImportedHere(nodes) ==
    { m.local : m \in { c \in FrameworkImports(nodes) : c.imported = "createElement" } }

\* the names held by the lists of a stack
NamesOn(groups) == UNION { Range(groups[i]) : i \in DOMAIN groups }

\* no import from the framework's module, no call through a tracked alias
NoRecognizedAlias(nodes, groups) ==
    /\ FrameworkImports(nodes) = {}
    /\ BareCallees(nodes) \cap NamesOn(groups) = {}
    /\ ~HasRootCall(nodes)

\* no anonymous function, no component element, no dynamic expression container
NoRewrittenSyntax(nodes) ==
    \A m \in NodesOf(nodes) :
        /\ m.type = "FunctionDeclaration" => m.id # << >>
        /\ m.type = "JSXElement" => m.name \in {"div", "span"}
        /\ m.type = "JSXExpressionContainer" =>
              m.expression.type \in {"Identifier", "FunctionExpression", "CallExpression"}

RECURSIVE RenamedNode(_, _)
\* the node with the identifier alias spelled createElement
RenamedNode(node, alias) ==
    CASE node.type = "ImportDeclaration" ->
           [node EXCEPT !.local = IF @ = alias THEN "createElement" ELSE @]
      [] node.type = "Identifier" ->
           [node EXCEPT !.name = IF @ = alias THEN "createElement" ELSE @]
      [] node.type = "CallExpression" ->
           [node EXCEPT !.callee = RenamedNode(@, alias),
                        !.arguments = [i \in DOMAIN @ |-> RenamedNode(@[i], alias)]]
      [] node.type = "ObjectExpression" ->
           [node EXCEPT !.properties = [i \in DOMAIN @ |-> RenamedNode(@[i], alias)]]
      [] node.type = "ArrayExpression" ->
           [node EXCEPT !.elements = [i \in DOMAIN @ |-> RenamedNode(@[i], alias)]]
      [] node.type = "Property" -> [node EXCEPT !.value = RenamedNode(@, alias)]
      [] node.type = "JSXElement" ->
           [node EXCEPT !.children = [i \in DOMAIN @ |-> RenamedNode(@[i], alias)]]
      [] node.type = "JSXExpressionContainer" ->
           [node EXCEPT !.expression = RenamedNode(@, alias)]
      [] OTHER -> node

RenamedProgram(nodes, alias) == [i \in DOMAIN nodes |-> RenamedNode(nodes[i], alias)]

\* text with the identifier alias spelled createElement
RenamedText(text, alias) ==
    [i \in DOMAIN text |-> IF text[i] = alias THEN "createElement" ELSE text[i]]

\* the unit imports createElement from the framework's module under alias, spells
\* every call site with it, and the name occurs nowhere else
FreshAlias(nodes, alias) ==
    /\ alias # "createElement"
    /\ ImportedHere(nodes) = {alias}
    /\ \A m \in CallsIn(nodes) : m.callee = Identifier(alias)
    /\ alias \notin Range(TextOfAll(RenamedProgram(nodes, alias)))

\* what the invocation gives for the unit with the import left unrenamed
Unrenamed(alias) ==
    transformSource(RenamedProgram(unit, alias),
                    [ok |-> TRUE, out |-> << >>, cg |-> entry.cg, ug |-> entry.ug,
                     react |-> "React", attrs |-> {}, tags |-> {}])

\* the text after the import declaration the unit starts with
AfterImport(text, nodes) == SubSeq(text, Len(TextOf(nodes[1])) + 1, Len(text))

TopLevelKeys ==
    LET call == unit[Len(unit)]
    IN  IF /\ unit # << >>
           /\ call.type = "CallExpression"
           /\ \/ call.callee.type = "MemberExpression"
              \/ call.callee.name \in ImportedHere(unit) \cup NamesOn(entry.cg)
           /\ call.arguments[2].type = "ObjectExpression"
           THEN { call.arguments[2].properties[i].key :
                     i \in DOMAIN call.arguments[2].properties }
           ELSE {}

\* C13: a matched tree-construction call whose props hold the key className yields an
\* element with the attribute key class, and no other key is renamed.
C13_ClassNameBecomesClass ==
    /\ \A g \in generated.attrs :
          g.attr = (IF g.key = "className" THEN "class" ELSE g.key)
    /\ outcome.status = "returned" =>
          /\ \A k \in TopLevelKeys :
                Includes(outcome.out, << IF k = "className" THEN "class" ELSE k, "=" >>)
          /\ ~Includes(outcome.out, << "className", "=" >>)

\* a call with the props {id: x, className: ...} was rewritten
C13_Witness ==
    /\ outcome.status = "returned"
    /\ TopLevelKeys = {"id", "className"}
    /\ [key |-> "className", attr |-> "class"] \in generated.attrs
    /\ [key |-> "id", attr |-> "id"] \in generated.attrs

\* C14: the binding name generated for a member / logical / ternary tag is TempCls
\* followed by zero or more "_", occurs nowhere in the tag text, the rendered props or
\* the rendered children, and the suffix loop ends within as many rounds as these
\* texts have characters.
C14_TempClsUnique ==
    \A g \in generated.tags :
        /\ g.tag[1] = "TempCls"
        /\ \A i \in 2..Len(g.tag) : g.tag[i] = "_"
        /\ ~Includes(g.identifierStr, g.tag)
        /\ ~Includes(g.propsStr, g.tag)
        /\ ~Includes(g.childrenStr, g.tag)
        /\ Len(g.tag) - 1 <= Len(g.identifierStr) + Len(g.propsStr) + Len(g.childrenStr)

\* a child bound to TempCls made its parent, whose own tag does not name TempCls,
\* take TempCls_
C14_Witness ==
    /\ outcome.status = "returned"
    /\ \E g \in generated.tags : g.tag = << "TempCls" >>
    /\ \E g \in generated.tags :
          /\ g.tag = << "TempCls", "_" >>
          /\ Includes(g.childrenStr, << "TempCls" >>)
          /\ ~Includes(g.identifierStr, << "TempCls" >>)

\* C15: when a top-level invocation ends, by returning or by throwing, the two stacks
\* have the depth and contents they had when it was entered.
C15_ScopeTeardown ==
    outcome.status # "idle" =>
        /\ createElementNameGroups = entry.cg
        /\ useEffectNameGroups = entry.ug

\* C16: a bare call is rewritten only if its name was imported in the current unit: a
\* unit that imports nothing from the framework's module, spells no call
\* React.createElement and has no other rewritten syntax is returned as it came,
\* whatever earlier invocations did.
C16_NoAliasAcrossUnits ==
    (/\ outcome.status = "returned"
     /\ FrameworkImports(unit) = {}
     /\ ~HasRootCall(unit)
     /\ NoRewrittenSyntax(unit)) =>
        outcome.out = TextOfAll(unit)

(***************************************************************************)
(* Properties of Children.only and useRef.                                 *)
(***************************************************************************)
\* C17: Children.only given more than one element throws, and the caller gets the
\* error: no value is returned in its place.
C17_OnlyRejectsSeveral ==
    (apiCall.fn = "Children.only" /\ apiCall.array /\ Len(apiCall.arg) > 1) =>
        /\ apiCall.threw
        /\ apiCall.value = "Error: Children must be a single element"
        /\ apiCall.value \notin Values

\* Children.only was called with the array ["a", "b"] and threw
C17_Witness ==
    /\ apiCall.fn = "Children.only"
    /\ apiCall.array
    /\ apiCall.arg = << "a", "b" >>
    /\ apiCall.threw

BodiesOf(f) == { i \in DOMAIN trace : trace[i].ev = "body" /\ trace[i].e = f }

\* the chains of continuations of effect f still on the queue
ChainsOf(f) == { i \in DOMAIN mq : mq[i].kind = "hop" /\ mq[i].e = f }

\* the number of continuations the claim gives each flavor
ClaimedHops == [passive |-> 3, layout |-> 2, insertion |-> 1]

C24_NoInterleaving ==
    \A i, j \in DOMAIN trace :
        (i < j /\ trace[i].ev = "body" /\ trace[j].ev = "body") =>
            trace[i].pass <= trace[j].pass

\* the value the latest setter call of the task returned for container s
PendingValue(s) ==
    IF s = "count" THEN AppliedInOrder(written[s], wbase[s])
                   ELSE FoldReducer(written[s], wbase[s])

\* C25: between a setter call and its flush, the getter, called directly or reached
\* through the proxy, gives the pending value (what the latest setter call returned);
\* whenever dirty is false it gives the committed value of the underlying signal.
C25_ReadYourWrites ==
    \A s \in Containers :
        /\ (written[s] # << >> /\ ncommit[s] = 0) =>
              /\ dirty[s]
              /\ wrappedSignal(s) = PendingValue(s)
              /\ wrappedSignal(s) = cache[s]
        /\ ~dirty[s] => wrappedSignal(s) = signal[s]
        /\ \A key \in ProxyKeys :
              ~proxyGet(s, key).threw => proxyGet(s, key).value = wrappedSignal(s)

\* count was written twice and is not flushed yet: the getter gives 3, the underlying
\* signal still holds 0
C25_Witness ==
    /\ Len(written["count"]) = 2
    /\ ncommit["count"] = 0
    /\ signal["count"] = 0
    /\ wrappedSignal("count") = 3
    /\ proxyGet("count", "toPrimitive").value = 3

\* the invocations of cleanups of effect f since the task began
CleanupsOf(f) == { i \in DOMAIN trace : trace[i].ev = "cleanup" /\ trace[i].e = f }

\* C26: a cleanup returned by a body run is invoked at most once: the stored cleanup is
\* the one of the latest body run or none (a body that returns nothing clears it), no
\* two invocations are of the same cleanup, and the cleanup invoked is always the one
\* the body run just before the next one returned.
C26_CleanupAtMostOnce ==
    \A f \in Flavors :
        /\ cleanup[f] \in {0, runs[f]}
        /\ cleanup[f] = lastRet[f]
        /\ \A i, j \in CleanupsOf(f) : i # j => trace[i].id # trace[j].id
        /\ \A i \in CleanupsOf(f) :
              /\ trace[i].id >= 1
              /\ i < Len(trace)
              /\ trace[i + 1].ev = "body"
              /\ trace[i + 1].e = f
              /\ trace[i + 1].id = trace[i].id + 1

\* the first body run returned a cleanup, the second ran it and returned none, and the
\* third body run invoked no cleanup
C26_Witness ==
    \E f \in Flavors :
        /\ runs[f] = 3
        /\ cleanup[f] = 0
        /\ Cardinality(BodiesOf(f)) = 2
        /\ \A i \in CleanupsOf(f) : trace[i].id = 1

\* C27: an effect declared without a dependency list, or with a list holding no tagged
\* wrapper, is evaluated once, at mount, and its body runs once: no commit
\* re-evaluates it.
C27_UntrackedRunsOnce ==
    \A f \in Range(effects) :
        edeps[f] = {} =>
            /\ runs[f] + Cardinality(ChainsOf(f)) = 1
            /\ ntasks = 0 => evals[f] = 1
            /\ ntasks > 0 => evals[f] = 0 /\ runs[f] = 1 /\ BodiesOf(f) = {}
            /\ \A s \in Containers : f \notin Range(Observers(s))

\* count and state were both committed with a different value after the mount of a
\* passive effect without dependencies, and its body has run once
C27_Witness ==
    /\ "passive" \in Range(effects)
    /\ edeps["passive"] = {}
    /\ runs["passive"] = 1
    /\ \A s \in Containers : ncommit[s] = 1 /\ signal[s] # wbase[s]
    /\ mq = << >>

\* C23: no write is lost: once the microtask queue has drained, the underlying signal of
\* every container written in the task holds what the latest setter call returned
\* (the setter returns cache), also when that call was made by a computation run
\* inside the flush.
C23_NoLostWrite ==
    (pc = "micro" /\ mq = << >>) =>
        \A s \in Containers : written[s] # << >> => signal[s] = cache[s]

\* the children the latest call of Children.only was given
GivenChildren == [array |-> apiCall.array, items |-> apiCall.arg]

\* C30: the Children utilities agree on what one element is: Children.only succeeds
\* exactly when Children.count is 1, and Children.toArray and Children.map have
\* Children.count entries.
C30_ChildrenAgree ==
    apiCall.fn = "Children.only" =>
        /\ ~apiCall.threw <=> ChildrenCount(GivenChildren) = 1
        /\ Len(ChildrenToArray(GivenChildren)) = ChildrenCount(GivenChildren)
        /\ Len(ChildrenMap(GivenChildren)) = ChildrenCount(GivenChildren)

(***************************************************************************)
(* Properties of the root-object alias and of the effect-hook rewrite.     *)
(***************************************************************************)
\* the local name of the framework's root object in a unit: the default import's, or React
RootAliasOf(nodes) ==
    IF \E m \in FrameworkImports(nodes) : m.imported = "default"
       THEN (CHOOSE m \in FrameworkImports(nodes) : m.imported = "default").local
       ELSE "React"

\* every call of the unit is spelled <root alias>.createElement, and none sits in a
\* position the engine copies instead of transforming (an array literal)
RootCallsOnly(nodes) ==
    /\ CallsIn(nodes) # {}
    /\ \A m \in CallsIn(nodes) :
          m.callee = MemberExpression(RootAliasOf(nodes), "createElement")
    /\ \A m \in NodesOf(nodes) : m.type # "ArrayExpression"

\* C29: a call through the root-object alias nested in a child or in a prop value, which
\* the engine transforms by a recursive invocation, is rewritten as it is at the top
\* level: no call text <alias>.createElement is left in the output.
C29_RootAliasNested ==
    (outcome.status = "returned" /\ RootCallsOnly(unit)) =>
        ~Includes(outcome.out, << RootAliasOf(unit), ".", "createElement" >>)

\* the pieces of the output that cover the source offset p: text copied from a span
\* holding p, or a replacement generated for a span holding p
PiecesCovering(p) ==
    { i \in DOMAIN hook.pieces : hook.pieces[i].from <= p /\ p < hook.pieces[i].to }

\* C21: within one invocation lastIndex never decreases, and every offset of the source
\* is emitted at most once, copied or covered by one replacement, also when an
\* identifier of the effect callback starts at the first character of its body.
C21_CursorDiscipline ==
    (hook.status = "returned" /\ hook.matched) =>
        /\ \A i \in 1..(Len(hook.cursor) - 1) : hook.cursor[i] <= hook.cursor[i + 1]
        /\ \A p \in 0..(Len(EffectSource(hook.unit)) - 1) :
              Cardinality(PiecesCovering(p)) <= 1

\* the identifiers of the callback body that refer to a variable: not the target of a
\* declaration, not the property name of a member access
ReferencesIn(u) ==
    SelectSeq(EffectIdentifiers(u), LAMBDA id : id.side \notin {"id", "property"})

\* the names the callback body refers to and does not declare itself
FreeNames(u) ==
    { ReferencesIn(u)[i].name : i \in DOMAIN ReferencesIn(u) }
        \ { EffectIdentifiers(u)[i].name :
              i \in { j \in DOMAIN EffectIdentifiers(u) :
                        EffectIdentifiers(u)[j].side = "id" } }

\* C22: in a matched effect-hook call every free-variable name of the callback body
\* gets exactly one materialized copy, and every reference to it is substituted, the
\* substitutions being made in source order.
C22_OneCopyPerName ==
    (hook.status = "returned" /\ hook.matched) =>
        /\ \A name \in FreeNames(hook.unit) :
              /\ Cardinality({ i \in DOMAIN hook.decls : hook.decls[i].name = name }) = 1
              /\ \A i \in DOMAIN ReferencesIn(hook.unit) :
                    ReferencesIn(hook.unit)[i].name = name =>
                        \E j \in DOMAIN hook.subs :
                            hook.subs[j].start = ReferencesIn(hook.unit)[i].start
        /\ \A i \in 1..(Len(hook.subs) - 1) : hook.subs[i].start < hook.subs[i + 1].start

\* C28: distinct names of one effect callback get distinct materialized-copy names, also
\* when one name is another followed by "_".
C28_DistinctCopies ==
    (hook.status = "returned" /\ hook.matched) =>
        \A i, j \in DOMAIN hook.decls :
            hook.decls[i].name # hook.decls[j].name =>
                hook.decls[i].newName # hook.decls[j].newName

====
